---- MODULE Spec2Model ----
(***************************************************************************)
(* Model of grimoire/django/tracked/admin.py: the period list filter       *)
(* (PeriodFilter), the report column resolution of TrackingReport and the  *)
(* report dispatch view of TrackedLiveAdmin.                               *)
(*                                                                         *)
(* Python strings that the code takes apart (the stored filter value, the  *)
(* period codes, the tracked_stamps prefix) are sequences of one-character *)
(* strings, so that split(':'), concatenation, emptiness and equality are  *)
(* computed as Python computes them.  Every Python call is an operator     *)
(* that yields a completion record: [kind |-> "return", value |-> v,       *)
(* trace |-> t] or [kind |-> "raise", exc |-> e, trace |-> t], where trace *)
(* lists, in order, the collaborator calls the call made.                  *)
(***************************************************************************)
EXTENDS Integers, Sequences, FiniteSets, TLC

VARIABLES
    tracked_stamps,        \* TrackedLiveAdmin.tracked_stamps
    report_period_type,    \* TrackedLiveAdmin.report_period_type
    report_generators,     \* TrackedLiveAdmin.report_generators
    reporters_by_key,      \* TrackedLiveAdmin._report_generators_by_key, when set
    call,                  \* the operation last invoked, with its arguments
    outcome                \* its completion record

vars == <<tracked_stamps, report_period_type, report_generators,
          reporters_by_key, call, outcome>>

-----------------------------------------------------------------------------
(* Bounds of the model. *)

\* longest report_generators list
MaxGenerators == 2
\* longest list_report
MaxListReport == 2
\* number of records a collection holds
MaxRecords == 1
\* number of pieces a stored filter value is assembled from
MaxPieces == 3

-----------------------------------------------------------------------------
(* Strings. *)

STR_create == <<"c", "r", "e", "a", "t", "e">>
STR_update == <<"u", "p", "d", "a", "t", "e">>
STR_both == <<"b", "o", "t", "h">>
STR_ago == <<"a", "g", "o">>
STR_current == <<"c", "u", "r", "r", "e", "n", "t">>
\* a setting outside both vocabularies
STR_other == <<"x">>
STR_colon == <<":">>
STR_empty == << >>

\* Python None where a string is expected
None == <<"None">>
\* the collaborator raises nothing
NoError == "NoError"

Return(v, t) == [kind |-> "return", value |-> v, trace |-> t]
Raise(e, t) == [kind |-> "raise", exc |-> e, trace |-> t]

-----------------------------------------------------------------------------
(* Period vocabularies. *)

PERIOD_AGO_LOOKUPS ==
    << <<<<"d">>, "One day ago">>, <<<<"w">>, "One week ago">>,
       <<<<"m">>, "One month ago">>, <<<<"q">>, "3 months ago">>,
       <<<<"h">>, "6 months ago">>, <<<<"y">>, "One year ago">> >>

PERIOD_CURRENT_LOOKUPS ==
    << <<<<"D">>, "Today">>, <<<<"M">>, "This month">>,
       <<<<"Q">>, "This quarter">>, <<<<"H">>, "This semester">>,
       <<<<"Y">>, "This year">> >>

Range(s) == {s[i] : i \in DOMAIN s}

\* the k of every (k, v) pair of a lookups tuple
Keys(lookups) == [i \in DOMAIN lookups |-> lookups[i][1]]

-----------------------------------------------------------------------------
(* The record collection (queryset).  A collection is the list of period   *)
(* operations applied to the model's base collection.                      *)

BaseQuerySet == [model |-> "SampleRecord", filters |-> << >>]

PeriodOps == {"created_on", "updated_on", "created_or_updated_on"}

\* queryset.<op>(period): the narrowed collection, or the error the
\* collection raises (fails is NoError when it raises nothing)
PeriodOp(op, queryset, period, fails) ==
    LET ev == <<[ev |-> op, period |-> period, on |-> queryset]>>
    IN  IF fails # NoError
        THEN Raise(fails, ev)
        ELSE Return([queryset EXCEPT !.filters = Append(@, <<op, period>>)], ev)

-----------------------------------------------------------------------------
(* TrackedLiveAdmin.get_period_options and the period list filter.         *)

ValidStamps == {STR_create, STR_update, STR_both}

\* TrackedLiveAdmin.get_period_options
get_period_options(rpt) ==
    LET ev == <<[ev |-> "get_period_options"]>>
    IN  IF rpt = STR_ago THEN Return(PERIOD_AGO_LOOKUPS, ev)
        ELSE IF rpt = STR_current THEN Return(PERIOD_CURRENT_LOOKUPS, ev)
        ELSE IF rpt = STR_both
             THEN Return(PERIOD_AGO_LOOKUPS \o PERIOD_CURRENT_LOOKUPS, ev)
        ELSE Raise("ValueError", ev)

\* PeriodFilter.lookups
PeriodFilter_lookups(ts, rpt) ==
    IF ts \notin ValidStamps
    THEN Raise("ValueError", << >>)
    ELSE LET prefix == ts \o STR_colon
             original == get_period_options(rpt)
         IN  IF original.kind = "raise"
             THEN original
             ELSE Return([i \in DOMAIN original.value |->
                             <<prefix \o original.value[i][1], original.value[i][2]>>],
                         original.trace)

\* index of the first occurrence of character c in s, 0 when there is none
RECURSIVE Find(_, _, _)
Find(s, c, i) ==
    IF i > Len(s) THEN 0
    ELSE IF s[i] = c THEN i
    ELSE Find(s, c, i + 1)

\* str.split(c) for a one-character separator
RECURSIVE Split(_, _)
Split(s, c) ==
    LET i == Find(s, c, 1)
    IN  IF i = 0 THEN <<s>>
        ELSE <<SubSeq(s, 1, i - 1)>> \o Split(SubSeq(s, i + 1, Len(s)), c)

\* the body of the try block of PeriodFilter.queryset
PeriodFilter_queryset_try(value, queryset, fails) ==
    IF value = None \/ value = STR_empty
    THEN Return(queryset, << >>)
    ELSE LET parts == Split(value, ":")
         IN  IF Len(parts) # 2
             THEN Raise("ValueError", << >>)
             ELSE LET prefix == parts[1]
                      period == parts[2]
                  IN  IF prefix = STR_create
                      THEN PeriodOp("created_on", queryset, period, fails)
                      ELSE IF prefix = STR_update
                      THEN PeriodOp("updated_on", queryset, period, fails)
                      ELSE IF prefix = STR_both
                      THEN PeriodOp("created_or_updated_on", queryset, period, fails)
                      ELSE Return(queryset, << >>)

\* the try block of the period filter without its except clause
PeriodFilter_queryset_uncaught(value, queryset, fails) ==
    PeriodFilter_queryset_try(value, queryset, fails)

\* PeriodFilter.queryset: value is self.value(); ValueError is caught
PeriodFilter_queryset(value, queryset, fails) ==
    LET r == PeriodFilter_queryset_try(value, queryset, fails)
    IN  IF r.kind = "raise" /\ r.exc = "ValueError"
        THEN Return(queryset, r.trace)
        ELSE r

-----------------------------------------------------------------------------
(* TrackingReport: column resolution, rows, process.                       *)
(*                                                                         *)
(* A report item is a string naming something, or an object that is not a  *)
(* string (a function, or something not callable).  A string item may be   *)
(* callable too (an instance of a str subclass that defines __call__).     *)
(* The model class gives its field names and what getattr(model, name)     *)
(* finds under each name; the report gives what getattr(self, name) finds. *)

Names == {"a", "b"}

StrItem(n, c) == [isStr |-> TRUE, name |-> n, callable |-> c]
\* a function object, as uppercase_content in the sample admin
FunctionItem == [isStr |-> FALSE, name |-> "uppercase_content", callable |-> TRUE]
\* an object that is neither a string nor callable
ObjectItem == [isStr |-> FALSE, name |-> "object", callable |-> FALSE]

Items == {StrItem(n, c) : n \in Names, c \in BOOLEAN} \cup {FunctionItem, ObjectItem}

\* what getattr(model, name, None) can find: nothing (None), a method, a
\* property with a getter function, a property without one
ModelMemberKinds == {"none", "method", "property", "wproperty"}
\* what getattr(self, name, None) can find on the report
ReportMemberKinds == {"none", "method"}

ModelClasses == [fields : SUBSET Names, members : [Names -> ModelMemberKinds]]

\* absent value of an attribute that is not a sequence
PyNone == "None"

\* the value a record yields through one access path; its Python type
\* decides how it is serialized
SampleValue(via, name, obj) ==
    [type |-> IF name = "b" /\ via = "field" THEN "datetime"
              ELSE IF name = "b" /\ via = "model_method" THEN "date"
              ELSE IF name = "b" /\ via = "model_property" THEN "time"
              ELSE "other",
     repr |-> <<via, name, obj>>]

\* TrackingReport._serialize_value
_serialize_value(value) ==
    IF value.type = "datetime" THEN <<"strftime", "%Y-%m-%d %H:%M:%S", value.repr>>
    ELSE IF value.type = "date" THEN <<"strftime", "%Y-%m-%d", value.repr>>
    ELSE IF value.type = "time" THEN <<"strftime", "%H:%M:%S", value.repr>>
    ELSE <<"text_type", value.repr>>

\* functions.is_method(member, METHOD_UNBOUND | METHOD_INSTANCE)
is_method(member) == member = "method"

\* isinstance(member, property)
is_property(member) == member \in {"property", "wproperty"}

\* the truth value of model_member.getter: getter is the decorator method
\* every property object has (the getter function itself is fget), a bound
\* built-in method, which is true whether or not the property is readable
getter_truth(member) == TRUE

\* header(list_report_item) inside get_report_column_builders
header(item, model, report) ==
    IF item.isStr /\ item.name \in model.fields
    THEN Return([case |-> "field", label |-> <<"verbose_name", "field", item.name>>], << >>)
    ELSE IF ~item.isStr
    \* getattr(model, list_report_item, None): attribute name must be string
    THEN Raise("TypeError", << >>)
    ELSE LET model_member == model.members[item.name]
             report_member == report.members[item.name]
         IN  IF is_method(model_member)
             THEN Return([case |-> "model_method",
                          label |-> <<"short_description", "model_member", item.name>>], << >>)
             ELSE IF is_property(model_member)
             THEN IF getter_truth(model_member)
                  THEN Return([case |-> "model_property",
                               label |-> <<"short_description", "model_member", item.name>>], << >>)
                  ELSE Raise("ValueError", << >>)
             ELSE IF is_method(report_member)
             THEN Return([case |-> "report_method",
                          label |-> <<"short_description", "report_member", item.name>>], << >>)
             ELSE IF item.callable
             THEN Return([case |-> "callable",
                          label |-> <<"short_description", "list_report", "<unknown>">>], << >>)
             ELSE Raise("TypeError", << >>)

\* fetcher(list_report_item) inside get_report_column_builders; the lambda
\* it returns is the pair of the access path and the item it closes over
fetcher(item, model, report) ==
    IF item.isStr /\ item.name \in model.fields
    THEN Return([case |-> "field", item |-> item], << >>)
    ELSE IF ~item.isStr
    \* getattr(model, list_report_item, None): attribute name must be string
    THEN Raise("TypeError", << >>)
    ELSE LET model_member == model.members[item.name]
             report_member == report.members[item.name]
         IN  IF is_method(model_member)
             THEN Return([case |-> "model_method", item |-> item], << >>)
             ELSE IF is_property(model_member)
             THEN IF getter_truth(model_member)
                  THEN Return([case |-> "model_property", item |-> item], << >>)
                  ELSE Raise("ValueError", << >>)
             ELSE IF is_method(report_member)
             THEN Return([case |-> "report_method", item |-> item], << >>)
             ELSE IF item.callable
             THEN Return([case |-> "callable", item |-> item], << >>)
             ELSE Raise("TypeError", << >>)

\* calling the lambda a fetcher returned on one record
ApplyFetcher(f, obj, model) ==
    IF f.case = "model_property" /\ model.members[f.item.name] = "wproperty"
    \* getattr(obj, name) on a property without a getter function
    THEN Raise("AttributeError", << >>)
    ELSE Return(_serialize_value(SampleValue(f.case, f.item.name, obj)), << >>)

\* self.get_list_report(request) or field_names; order is the order in
\* which the set field_names is iterated
EffectiveListReport(report, order) ==
    IF report.list_report = << >>
    THEN [i \in DOMAIN order |-> StrItem(order[i], FALSE)]
    ELSE report.list_report

\* the list comprehension of get_report_column_builders over items i..
RECURSIVE Columns(_, _, _, _)
Columns(items, i, model, report) ==
    IF i > Len(items) THEN Return(<< >>, << >>)
    ELSE LET h == header(items[i], model, report)
             f == fetcher(items[i], model, report)
         IN  IF h.kind = "raise" THEN h
             ELSE IF f.kind = "raise" THEN f
             ELSE LET rest == Columns(items, i + 1, model, report)
                  IN  IF rest.kind = "raise" THEN rest
                      ELSE Return(<<[header |-> h.value, fetcher |-> f.value]>>
                                      \o rest.value, << >>)

\* TrackingReport.get_report_column_builders
get_report_column_builders(model, report, order) ==
    Columns(EffectiveListReport(report, order), 1, model, report)

\* [column.fetcher(instance) for column in columns], from column j on
RECURSIVE Row(_, _, _, _)
Row(columns, j, obj, model) ==
    IF j > Len(columns) THEN Return(<< >>, << >>)
    ELSE LET cell == ApplyFetcher(columns[j].fetcher, obj, model)
         IN  IF cell.kind = "raise" THEN cell
             ELSE LET rest == Row(columns, j + 1, obj, model)
                  IN  IF rest.kind = "raise" THEN rest
                      ELSE Return(<<cell.value>> \o rest.value, << >>)

\* the loop of get_report_data_rows over the records obj..n of the query
RECURSIVE Rows(_, _, _, _)
Rows(columns, obj, n, model) ==
    IF obj > n THEN Return(<< >>, << >>)
    ELSE LET ev == <<[ev |-> "read", obj |-> obj]>>
             row == Row(columns, 1, obj, model)
         IN  IF row.kind = "raise" THEN Raise(row.exc, ev)
             ELSE LET rest == Rows(columns, obj + 1, n, model)
                  IN  IF rest.kind = "raise" THEN Raise(rest.exc, ev \o rest.trace)
                      ELSE Return(<<row.value>> \o rest.value, ev \o rest.trace)

\* [l for l in list_report if l in field_names], from item i on
RECURSIVE QueriedFields(_, _, _)
QueriedFields(items, i, model) ==
    IF i > Len(items) THEN << >>
    ELSE (IF items[i].isStr /\ items[i].name \in model.fields
          THEN <<items[i].name>> ELSE << >>) \o QueriedFields(items, i + 1, model)

\* the headers and the loop of get_report_data_rows, over the n records
\* that queryset.only(*queried_field_named) yields
ReadRows(columns, queryset, queried_field_named, n, model) ==
    LET headers == [j \in DOMAIN columns |-> columns[j].header.label]
        ev == <<[ev |-> "only", fields |-> queried_field_named, on |-> queryset]>>
        rows == Rows(columns, 1, n, model)
    IN  IF rows.kind = "raise" THEN Raise(rows.exc, ev \o rows.trace)
        ELSE Return([headers |-> headers, values |-> rows.value], ev \o rows.trace)

\* get_report_data_rows with the query issued before the columns are built
get_report_data_rows_query_first(queryset, n, model, report, order) ==
    LET list_report == EffectiveListReport(report, order)
        named == QueriedFields(list_report, 1, model)
        queried_field_named == IF named = << >> THEN <<"id">> ELSE named
        columns == get_report_column_builders(model, report, order)
    IN  IF columns.kind = "raise"
        THEN Raise(columns.exc,
                   <<[ev |-> "only", fields |-> queried_field_named, on |-> queryset]>>)
        ELSE ReadRows(columns.value, queryset, queried_field_named, n, model)

\* TrackingReport.get_report_data_rows; the collection holds n records
get_report_data_rows(queryset, n, model, report, order) ==
    LET list_report == EffectiveListReport(report, order)
        named == QueriedFields(list_report, 1, model)
        queried_field_named == IF named = << >> THEN <<"id">> ELSE named
        columns == get_report_column_builders(model, report, order)
    IN  IF columns.kind = "raise" THEN columns
        ELSE ReadRows(columns.value, queryset, queried_field_named, n, model)

\* dump_report_content(result), the subclass's: it is reached when the
\* completion result of its argument is a return, and raises dumpFails
\* unless that is NoError
dump_report_content(result, dumpFails) ==
    IF result.kind = "raise" THEN result
    ELSE LET ev == <<[ev |-> "dump_report_content"]>>
         IN  IF dumpFails # NoError THEN Raise(dumpFails, result.trace \o ev)
             ELSE Return(<<"dump", result.value>>, result.trace \o ev)

\* TrackingReport.get_attachment_content
get_attachment_content(queryset, n, model, report, order, dumpFails) ==
    dump_report_content(get_report_data_rows(queryset, n, model, report, order),
                        dumpFails)

\* the response process builds once content, the completion of
\* get_attachment_content, is a return
AttachmentResponse(content, report) ==
    IF content.kind = "raise" THEN content
    ELSE Return([type |-> "file",
                 content |-> content.value,
                 content_type |-> IF report.content_type = PyNone
                                  THEN "text/plain" ELSE report.content_type,
                 disposition |-> <<"attachment; filename=",
                                   IF report.filename = PyNone
                                   THEN "report.txt" ELSE report.filename>>],
                content.trace)

\* TrackingReport.process
process(queryset, period, n, model, report, order, dumpFails) ==
    AttachmentResponse(
        get_attachment_content(queryset, n, model, report, order, dumpFails), report)

-----------------------------------------------------------------------------
(* TrackedLiveAdmin: the reporter cache, the period collection, the view.  *)

\* the model class the admin is registered for
SampleModel == [fields |-> Names, members |-> [n \in Names |-> "none"]]

\* a CSVReport instance: no content_type of its own, a timestamped filename
CSVReport(key, list_report) ==
    [key |-> key, list_report |-> list_report,
     members |-> [n \in Names |-> "none"],
     content_type |-> PyNone, filename |-> "report-<now>.csv"]

\* the report generators an admin may be configured with: one over two
\* fields, one over every field that shares the first one's key, and one
\* whose list_report holds an item nothing resolves
Generators ==
    {CSVReport("csv", <<StrItem("a", FALSE), StrItem("b", FALSE)>>),
     CSVReport("csv", << >>),
     CSVReport("xls", <<StrItem("a", FALSE), ObjectItem>>)}

\* {r.key: r for r in self.report_generators}: a later generator replaces
\* an earlier one of the same key
ReportersDict(gens) ==
    [k \in {gens[i].key : i \in DOMAIN gens} |->
        LET last == CHOOSE i \in DOMAIN gens :
                        /\ gens[i].key = k
                        /\ \A j \in DOMAIN gens : gens[j].key = k => j <= i
        IN  gens[last]]

\* TrackedLiveAdmin.get_reporters; cache is _report_generators_by_key
get_reporters(cache, gens) ==
    LET built == IF cache.set THEN cache ELSE [set |-> TRUE, dict |-> ReportersDict(gens)]
    IN  [kind |-> "return", value |-> built.dict,
         trace |-> <<[ev |-> "get_reporters"]>>, cache |-> built]

\* TrackedLiveAdmin.render_report_error
render_report_error(error, status) ==
    [type |-> "page", error |-> error, status |-> status]

\* the period operation the tracked_stamps setting selects, with the first
\* two settings taken for each other
get_period_queryset_swapped(period, ts, qsFails) ==
    LET ev == <<[ev |-> "get_queryset"]>>
        qs == BaseQuerySet
        r == IF ts = STR_create THEN PeriodOp("updated_on", qs, period, qsFails)
             ELSE IF ts = STR_update THEN PeriodOp("created_on", qs, period, qsFails)
             ELSE IF ts = STR_both
                  THEN PeriodOp("created_or_updated_on", qs, period, qsFails)
             ELSE Raise("ValueError", << >>)
    IN  [r EXCEPT !.trace = ev \o @]

\* TrackedLiveAdmin.get_period_queryset
get_period_queryset(period, ts, qsFails) ==
    LET ev == <<[ev |-> "get_queryset"]>>
        qs == BaseQuerySet
        r == IF ts = STR_create THEN PeriodOp("created_on", qs, period, qsFails)
             ELSE IF ts = STR_update THEN PeriodOp("updated_on", qs, period, qsFails)
             ELSE IF ts = STR_both
                  THEN PeriodOp("created_or_updated_on", qs, period, qsFails)
             ELSE Raise("ValueError", << >>)
    IN  [r EXCEPT !.trace = ev \o @]

\* the statement in the try block of report_view
report_view_try(reporter, period, ts, qsFails, n, order, dumpFails) ==
    LET qs == get_period_queryset(period, ts, qsFails)
    IN  IF qs.kind = "raise" THEN qs
        ELSE LET ev == <<[ev |-> "process", key |-> reporter.key,
                          queryset |-> qs.value, period |-> period]>>
                 r == process(qs.value, period, n, SampleModel, reporter, order, dumpFails)
             IN  [r EXCEPT !.trace = qs.trace \o ev \o @]

\* the try statement without its except clause
report_view_reraise(r, t) ==
    IF r.kind = "raise"
    THEN Raise(r.exc, t \o r.trace)
    ELSE Return(r.value, t \o r.trace)

\* the end of report_view: r is the completion of the try block, t the
\* trace up to it; the bare except logs and renders the error page
report_view_except(r, t) ==
    IF r.kind = "raise"
    THEN Return(render_report_error("An unexpected error has occurred", 500),
                t \o r.trace \o <<[ev |-> "logger.exception", exc |-> r.exc]>>)
    ELSE Return(r.value, t \o r.trace)

\* the period test with its membership test inverted
period_rejected_inverted(period, allowed_periods) ==
    period # STR_empty /\ period \in Range(allowed_periods)

\* period and period not in allowed_periods
period_rejected(period, allowed_periods) ==
    period # STR_empty /\ period \notin Range(allowed_periods)

\* report_view once the reporter is found
report_view_found(reporter, period, ts, rpt, qsFails, n, order, dumpFails) ==
    LET options == get_period_options(rpt)
    IN  IF options.kind = "raise" THEN options
        ELSE LET allowed_periods == Keys(options.value)
             IN  IF period_rejected(period, allowed_periods)
                 THEN Return(render_report_error("Invalid report type", 400),
                             options.trace)
                 ELSE report_view_except(
                          report_view_try(reporter, period, ts, qsFails,
                                          n, order, dumpFails), options.trace)

\* the completion r of a call that opened with get_reporters
AfterReporters(reporters, r) ==
    IF r.kind = "raise"
    THEN [kind |-> "raise", exc |-> r.exc, trace |-> reporters.trace \o r.trace,
          cache |-> reporters.cache]
    ELSE [kind |-> "return", value |-> r.value, trace |-> reporters.trace \o r.trace,
          cache |-> reporters.cache]

\* report_view with the KeyError of the lookup left uncaught
report_view_KeyError(key, period, cache, gens, ts, rpt, qsFails, n, order, dumpFails) ==
    LET reporters == get_reporters(cache, gens)
    IN  IF key \notin DOMAIN reporters.value
        THEN AfterReporters(reporters, Raise("KeyError", << >>))
        ELSE AfterReporters(reporters,
                 report_view_found(reporters.value[key], period, ts, rpt,
                                   qsFails, n, order, dumpFails))

\* TrackedLiveAdmin.report_view
report_view(key, period, cache, gens, ts, rpt, qsFails, n, order, dumpFails) ==
    LET reporters == get_reporters(cache, gens)
    IN  IF key \notin DOMAIN reporters.value
        THEN AfterReporters(reporters,
                 Return(render_report_error("Report not found", 404), << >>))
        ELSE AfterReporters(reporters,
                 report_view_found(reporters.value[key], period, ts, rpt,
                                   qsFails, n, order, dumpFails))

-----------------------------------------------------------------------------
(* The state machine.  A call is taken when nothing is in progress, runs   *)
(* to completion in one step (the code is one synchronous call chain), and *)
(* Finish hands its completion to the caller.  Only the reporter cache     *)
(* outlives a call.                                                        *)

Idle == [op |-> "idle"]
NoOutcome == [kind |-> "none"]
NoCache == [set |-> FALSE]

StampSettings == ValidStamps \cup {STR_other}
PeriodTypeSettings == {STR_ago, STR_current, STR_both, STR_other}
GeneratorLists == UNION {[1..k -> Generators] : k \in 0..MaxGenerators}

\* the keys and period codes a request may carry
RequestKeys == {"csv", "xls", "unknown"}
RequestPeriods == {STR_empty, <<"d">>, <<"m">>, <<"D">>, <<"Y">>, <<"z">>}

\* what a collaborator may raise
Errors == {"ValueError", "DatabaseError"}
Failures == {NoError} \cup Errors

\* the orders in which a set of field names may be iterated
Orders(fields) ==
    {o \in [1..Cardinality(fields) -> fields] : Range(o) = fields}

ListReports == UNION {[1..k -> Items] : k \in 0..MaxListReport}

\* the stored values of the period filter: None, or up to MaxPieces pieces
Pieces == {STR_create, STR_update, STR_both, STR_other, STR_colon,
           <<"d">>, <<"D">>, <<"z">>}

RECURSIVE Join(_)
Join(ps) == IF ps = << >> THEN << >> ELSE Head(ps) \o Join(Tail(ps))

FilterValues ==
    {None} \cup {Join(ps) : ps \in UNION {[1..k -> Pieces] : k \in 0..MaxPieces}}

Completion(r) ==
    IF r.kind = "raise"
    THEN [kind |-> "raise", exc |-> r.exc, trace |-> r.trace]
    ELSE [kind |-> "return", value |-> r.value, trace |-> r.trace]

Config == <<tracked_stamps, report_period_type, report_generators>>

\* call c ran to the completion r, which carries the reporter cache it left
Completes(c, r) ==
    /\ call' = c
    /\ outcome' = Completion(r)
    /\ reporters_by_key' = r.cache

\* a request reaches report_view
ReportView ==
    /\ call = Idle
    /\ \E key \in RequestKeys, period \in RequestPeriods, qsFails \in Failures,
       n \in 0..MaxRecords, order \in Orders(SampleModel.fields),
       dumpFails \in Failures \ {"ValueError"} :
        /\ Completes([op |-> "report_view", key |-> key, period |-> period,
                      qsFails |-> qsFails, n |-> n, order |-> order,
                      dumpFails |-> dumpFails],
                     report_view(key, period, reporters_by_key, report_generators,
                                 tracked_stamps, report_period_type,
                                 qsFails, n, order, dumpFails))
        /\ UNCHANGED Config

GetReporters ==
    /\ call = Idle
    /\ Completes([op |-> "get_reporters"],
                 get_reporters(reporters_by_key, report_generators))
    /\ UNCHANGED Config

GetPeriodOptions ==
    /\ call = Idle
    /\ call' = [op |-> "get_period_options"]
    /\ outcome' = get_period_options(report_period_type)
    /\ UNCHANGED <<Config, reporters_by_key>>

GetPeriodQueryset ==
    /\ call = Idle
    /\ \E period \in RequestPeriods, qsFails \in Failures :
        /\ call' = [op |-> "get_period_queryset", period |-> period, qsFails |-> qsFails]
        /\ outcome' = get_period_queryset(period, tracked_stamps, qsFails)
        /\ UNCHANGED <<Config, reporters_by_key>>

\* the change list builds the period filter's options
FilterLookups ==
    /\ call = Idle
    /\ call' = [op |-> "PeriodFilter.lookups"]
    /\ outcome' = PeriodFilter_lookups(tracked_stamps, report_period_type)
    /\ UNCHANGED <<Config, reporters_by_key>>

\* the change list applies the period filter to its collection
FilterQueryset ==
    /\ call = Idle
    /\ \E value \in FilterValues, fails \in Failures :
        /\ call' = [op |-> "PeriodFilter.queryset", value |-> value, fails |-> fails]
        /\ outcome' = PeriodFilter_queryset(value, BaseQuerySet, fails)
        /\ UNCHANGED <<Config, reporters_by_key>>

\* a report resolves its columns against a model class
ColumnBuilders ==
    /\ call = Idle
    /\ \E model \in ModelClasses, members \in [Names -> ReportMemberKinds],
       list_report \in ListReports :
        \E order \in Orders(model.fields) :
            LET report == [CSVReport("csv", list_report) EXCEPT !.members = members]
            IN  /\ call' = [op |-> "get_report_column_builders", model |-> model,
                            report |-> report, order |-> order]
                /\ outcome' = get_report_column_builders(model, report, order)
                /\ UNCHANGED <<Config, reporters_by_key>>

\* a report builds its rows from a collection of n records
DataRows ==
    /\ call = Idle
    /\ \E model \in ModelClasses, members \in [Names -> ReportMemberKinds],
       list_report \in ListReports, n \in 0..MaxRecords :
        \E order \in Orders(model.fields) :
            LET report == [CSVReport("csv", list_report) EXCEPT !.members = members]
            IN  /\ call' = [op |-> "get_report_data_rows", model |-> model,
                            report |-> report, order |-> order, n |-> n]
                /\ outcome' = get_report_data_rows(BaseQuerySet, n, model, report, order)
                /\ UNCHANGED <<Config, reporters_by_key>>

\* the completion is handed to the caller
Finish ==
    /\ call # Idle
    /\ call' = Idle
    /\ outcome' = NoOutcome
    /\ UNCHANGED <<Config, reporters_by_key>>

\* the admin: any configuration, no cache yet
Init ==
    /\ tracked_stamps \in StampSettings
    /\ report_period_type \in PeriodTypeSettings
    /\ report_generators \in GeneratorLists
    /\ reporters_by_key = NoCache
    /\ call = Idle
    /\ outcome = NoOutcome

Next ==
    \/ ReportView
    \/ GetReporters
    \/ GetPeriodOptions
    \/ GetPeriodQueryset
    \/ FilterLookups
    \/ Finish

Spec == Init /\ [][Next]_vars

\* the period filter of an admin without report generators
InitFilter ==
    /\ tracked_stamps \in StampSettings
    /\ report_period_type \in PeriodTypeSettings
    /\ report_generators = << >>
    /\ reporters_by_key = NoCache
    /\ call = Idle
    /\ outcome = NoOutcome

NextFilter ==
    \/ FilterLookups
    \/ FilterQueryset
    \/ Finish

SpecFilter == InitFilter /\ [][NextFilter]_vars

\* a report on its own, the admin left as the class declares it
InitReport ==
    /\ tracked_stamps = STR_both
    /\ report_period_type = STR_both
    /\ report_generators = << >>
    /\ reporters_by_key = NoCache
    /\ call = Idle
    /\ outcome = NoOutcome

NextReport ==
    \/ ColumnBuilders
    \/ DataRows
    \/ Finish

SpecReport == InitReport /\ [][NextReport]_vars

-----------------------------------------------------------------------------
(* What the claims are stated with. *)

\* the number of events of t whose kind is in kinds
Count(t, kinds) == Cardinality({i \in DOMAIN t : t[i].ev \in kinds})

\* key is the key of a generator of the admin's report_generators
Registered(key) ==
    \E i \in DOMAIN report_generators : report_generators[i].key = key

ValidPeriodTypes == {STR_ago, STR_current, STR_both}

AgoCodes == {<<"d">>, <<"w">>, <<"m">>, <<"q">>, <<"h">>, <<"y">>}
CurrentCodes == {<<"D">>, <<"M">>, <<"Q">>, <<"H">>, <<"Y">>}

\* the period codes a report_period_type setting allows
AllowedCodes(rpt) ==
    IF rpt = STR_ago THEN AgoCodes
    ELSE IF rpt = STR_current THEN CurrentCodes
    ELSE IF rpt = STR_both THEN AgoCodes \cup CurrentCodes
    ELSE {}

\* the period operation a tracked_stamps setting names
StampOp(ts) ==
    IF ts = STR_create THEN "created_on"
    ELSE IF ts = STR_update THEN "updated_on"
    ELSE "created_or_updated_on"

\* the outcome is the error page with this status
IsErrorPage(status) ==
    /\ outcome.kind = "return"
    /\ outcome.value.type = "page"
    /\ outcome.value.status = status

\* what resolving the period collection and running process consist of
ResolveEvents == {"get_queryset"} \cup PeriodOps
ProcessEvents == {"process", "only", "read", "dump_report_content"}

-----------------------------------------------------------------------------
(* C1: a request to report_view whose key no generator of                  *)
(* report_generators has gets the error page with status 404, whatever the *)
(* period code and the settings are; the period options are not consulted, *)
(* no period collection is resolved and no process is invoked.             *)
C1_UnknownKeyIs404 ==
    (call.op = "report_view" /\ ~Registered(call.key)) =>
        /\ IsErrorPage(404)
        /\ Count(outcome.trace,
                 {"get_period_options"} \cup ResolveEvents \cup ProcessEvents) = 0

\* an unknown key with a period code no setting allows, under a
\* report_period_type that get_period_options rejects, other keys registered
C1_Witness ==
    /\ call.op = "report_view"
    /\ ~Registered(call.key)
    /\ report_generators # << >>
    /\ call.period = <<"z">>
    /\ report_period_type = STR_other
    /\ IsErrorPage(404)

TryRaises ==
    report_view_try(ReportersDict(report_generators)[call.key], call.period,
                    tracked_stamps, call.qsFails, call.n, call.order,
                    call.dumpFails).kind = "raise"

(* C3: for a request to report_view with a registered key and an allowed   *)
(* period, when resolving the period collection or process raises, the     *)
(* exception is logged and the result is the error page with status 500:   *)
(* nothing is raised to the caller, process is invoked at most once and no *)
(* file response is returned.                                              *)
C3_FailureIs500 ==
    (/\ call.op = "report_view"
     /\ Registered(call.key)
     /\ call.period \in AllowedCodes(report_period_type)) =>
        /\ outcome.kind = "return"
        /\ Count(outcome.trace, {"process"}) <= 1
        /\ TryRaises =>
              /\ IsErrorPage(500)
              /\ Count(outcome.trace, {"logger.exception"}) = 1
        /\ (outcome.value.type = "file") =>
              Count(outcome.trace, {"logger.exception"}) = 0

\* process was invoked, raised while dumping the content, and the request
\* ended in the error page
C3_Witness ==
    /\ call.op = "report_view"
    /\ Registered(call.key)
    /\ call.period \in AllowedCodes(report_period_type)
    /\ call.dumpFails # NoError
    /\ Count(outcome.trace, {"process"}) = 1
    /\ Count(outcome.trace, {"dump_report_content"}) = 1
    /\ IsErrorPage(500)

\* the events of t that are period operations of the collection
PeriodOpEvents(t) == SelectSeq(t, LAMBDA e : e.ev \in PeriodOps)

\* the one period operation the settings and the period code ask for
ExpectedPeriodOp(period) ==
    [ev |-> StampOp(tracked_stamps), period |-> period, on |-> BaseQuerySet]

(* C4: under a tracked_stamps of create, update or both,                   *)
(* get_period_queryset invokes exactly one period operation of the         *)
(* collection, the one the setting names (created_on, updated_on,          *)
(* created_or_updated_on), with the period code it was given, and returns  *)
(* that operation's result; report_view hands that collection to process.  *)
C4_PeriodQuerysetByStamps ==
    /\ (call.op = "get_period_queryset" /\ tracked_stamps \in ValidStamps) =>
          /\ PeriodOpEvents(outcome.trace) = <<ExpectedPeriodOp(call.period)>>
          /\ (call.qsFails = NoError) =>
                /\ outcome.kind = "return"
                /\ outcome.value =
                      [BaseQuerySet EXCEPT
                          !.filters = <<<<StampOp(tracked_stamps), call.period>>>>]
    /\ (call.op = "report_view" /\ tracked_stamps \in ValidStamps) =>
          \A i \in DOMAIN outcome.trace :
              outcome.trace[i].ev = "process" =>
                  /\ PeriodOpEvents(outcome.trace) = <<ExpectedPeriodOp(call.period)>>
                  /\ outcome.trace[i].period = call.period
                  /\ outcome.trace[i].queryset =
                        [BaseQuerySet EXCEPT
                            !.filters = <<<<StampOp(tracked_stamps), call.period>>>>]

\* a report served under 'update': process got the updated_on collection
C4_Witness ==
    /\ call.op = "report_view"
    /\ tracked_stamps = STR_update
    /\ call.period = <<"m">>
    /\ outcome.kind = "return"
    /\ outcome.value.type = "file"
    /\ \E i \in DOMAIN outcome.trace :
          /\ outcome.trace[i].ev = "process"
          /\ outcome.trace[i].queryset.filters = <<<<"updated_on", <<"m">>>>>>

\* the request in call gets as far as the setting named: report_view reads
\* report_period_type once the key is found, and tracked_stamps once the
\* period code has passed
ConsultsPeriodType ==
    \/ call.op \in {"get_period_options", "PeriodFilter.lookups"}
    \/ call.op = "report_view" /\ Registered(call.key)
ConsultsStamps ==
    \/ call.op \in {"get_period_queryset", "PeriodFilter.lookups"}
    \/ /\ call.op = "report_view"
       /\ Registered(call.key)
       /\ call.period \in AllowedCodes(report_period_type)

(* C5: when tracked_stamps is not one of create/update/both or             *)
(* report_period_type is not one of ago/current/both, every operation that *)
(* consults the setting (PeriodFilter.lookups, get_period_options,         *)
(* get_period_queryset, report_view) raises an error to its caller and     *)
(* returns neither a file response nor an error page.                      *)
C5_ConfigurationErrorIsRaised ==
    /\ (report_period_type \notin ValidPeriodTypes /\ ConsultsPeriodType) =>
          outcome.kind = "raise"
    /\ (tracked_stamps \notin ValidStamps /\ ConsultsStamps) =>
          outcome.kind = "raise"

-----------------------------------------------------------------------------
(* The stored value of the period filter, read without split. *)

\* the positions of ':' in v
Colons(v) == {i \in DOMAIN v : v[i] = ":"}

\* v is prefix:code with one ':' only
HasShape(v) == v # None /\ Cardinality(Colons(v)) = 1

ColonAt(v) == CHOOSE i \in Colons(v) : TRUE
PrefixOf(v) == SubSeq(v, 1, ColonAt(v) - 1)
CodeOf(v) == SubSeq(v, ColonAt(v) + 1, Len(v))

\* v is prefix:code with a prefix among create, update, both
WellFormed(v) == HasShape(v) /\ PrefixOf(v) \in ValidStamps

\* the collection came back as it was given, nothing was invoked on it and
\* nothing was raised
Unfiltered ==
    /\ outcome.kind = "return"
    /\ outcome.value = BaseQuerySet
    /\ outcome.trace = << >>

(* C6: for a stored value whose period code is not in the family set the   *)
(* report_period_type setting selects, PeriodFilter.queryset returns the   *)
(* collection it was given unchanged and invokes none of created_on,       *)
(* updated_on, created_or_updated_on, also under a valid prefix.           *)
C6_ForeignFamilyUnfiltered ==
    (/\ call.op = "PeriodFilter.queryset"
     /\ report_period_type \in ValidPeriodTypes
     /\ HasShape(call.value)
     /\ CodeOf(call.value) \in AgoCodes \cup CurrentCodes
     /\ CodeOf(call.value) \notin AllowedCodes(report_period_type)) =>
        Unfiltered

(* C7: PeriodFilter.queryset returns the collection it was given unchanged *)
(* and raises nothing for every stored value that is absent or empty, has  *)
(* no ':' or more than one, or has a prefix outside create, update, both;  *)
(* a value prefix:code with such a prefix invokes one period operation,    *)
(* the one its prefix names, with its code, and no other value invokes any.*)
C7_MalformedValueUnfiltered ==
    (call.op = "PeriodFilter.queryset") =>
        IF WellFormed(call.value)
        THEN outcome.trace =
                 <<[ev |-> StampOp(PrefixOf(call.value)),
                    period |-> CodeOf(call.value), on |-> BaseQuerySet]>>
        ELSE Unfiltered

\* a value of two separators under a valid prefix came back unfiltered
C7_Witness ==
    /\ call.op = "PeriodFilter.queryset"
    /\ call.value = STR_both \o STR_colon \o STR_colon
    /\ Unfiltered

-----------------------------------------------------------------------------
(* The five cases of column resolution, as the claims number them. *)

\* the report items the call in progress resolves
CallItems == EffectiveListReport(call.report, call.order)

\* item matches case k under the model class and the report of the call
Matches(item, k) ==
    IF k = 1 THEN item.isStr /\ item.name \in call.model.fields
    ELSE IF k = 2 THEN item.isStr /\ call.model.members[item.name] = "method"
    ELSE IF k = 3 THEN item.isStr /\ call.model.members[item.name] = "property"
    ELSE IF k = 4 THEN item.isStr /\ call.report.members[item.name] = "method"
    ELSE item.callable

CaseName(k) ==
    IF k = 1 THEN "field"
    ELSE IF k = 2 THEN "model_method"
    ELSE IF k = 3 THEN "model_property"
    ELSE IF k = 4 THEN "report_method"
    ELSE "callable"

Resolvable(item) == \E k \in 1..5 : Matches(item, k)

\* the lowest-numbered case item matches
FirstCase(item) ==
    CHOOSE k \in 1..5 : Matches(item, k) /\ \A j \in 1..(k - 1) : ~Matches(item, j)

\* item names a property of the model that has no getter
NamesUnreadableProperty(item) ==
    item.isStr /\ call.model.members[item.name] = "wproperty"

ResolvesColumns == call.op \in {"get_report_column_builders", "get_report_data_rows"}

(* C8: get_report_column_builders resolves each report item by the first   *)
(* of (1) model field, (2) model method, (3) readable model property,      *)
(* (4) report-generator method, (5) directly callable item that matches:   *)
(* when every item matches a case, every column's header and value         *)
(* accessor both come from the lowest-numbered case its item matches.      *)
C8_FirstMatchingCaseDecides ==
    (/\ call.op = "get_report_column_builders"
     /\ \A i \in DOMAIN CallItems : Resolvable(CallItems[i])) =>
        /\ outcome.kind = "return"
        /\ Len(outcome.value) = Len(CallItems)
        /\ \A i \in DOMAIN CallItems :
              /\ outcome.value[i].header.case = CaseName(FirstCase(CallItems[i]))
              /\ outcome.value[i].fetcher.case = CaseName(FirstCase(CallItems[i]))

(* C9: when the report list holds an item that is not a model field, not a *)
(* model method or property, not a report-generator method and not         *)
(* callable, column construction fails with a type error, and              *)
(* get_report_data_rows fails with it before the collection is queried or  *)
(* a record is read.                                                       *)
C9_UnresolvableItemIsTypeError ==
    (/\ ResolvesColumns
     /\ \E i \in DOMAIN CallItems :
           /\ ~Resolvable(CallItems[i])
           /\ ~NamesUnreadableProperty(CallItems[i])) =>
        /\ outcome.kind = "raise"
        /\ outcome.exc = "TypeError"
        /\ Count(outcome.trace, {"only", "read"}) = 0

\* rows were asked of a collection that holds a record, for a model field
\* followed by a name that nothing resolves
C9_Witness ==
    /\ call.op = "get_report_data_rows"
    /\ call.n >= 1
    /\ Len(call.report.list_report) = 2
    /\ Matches(call.report.list_report[1], 1)
    /\ call.report.list_report[2].isStr
    /\ ~Resolvable(call.report.list_report[2])
    /\ ~NamesUnreadableProperty(call.report.list_report[2])
    /\ outcome.kind = "raise"

(* C10: a report item that names a property of the model with no getter    *)
(* (and no model field) makes get_report_column_builders raise: no column  *)
(* is returned for it.                                                     *)
C10_UnreadablePropertyIsRaised ==
    (/\ call.op = "get_report_column_builders"
     /\ \E i \in DOMAIN CallItems :
           /\ NamesUnreadableProperty(CallItems[i])
           /\ ~Matches(CallItems[i], 1)) =>
        outcome.kind = "raise"

\* item is a callable object that is not a string, as uppercase_content
IsCallableObject(item) == ~item.isStr /\ item.callable

\* every item of the call is a model field or a callable object, and one
\* of them is a callable object
FieldsAndCallables ==
    /\ \A i \in DOMAIN CallItems :
          Matches(CallItems[i], 1) \/ IsCallableObject(CallItems[i])
    /\ \E i \in DOMAIN CallItems : IsCallableObject(CallItems[i])

(* C11: a report item that is itself a callable object and not a string    *)
(* name resolves to a column: column construction succeeds for it, and the *)
(* column's value for every record is the serialized result of calling the *)
(* item with the record.                                                   *)
C11_CallableItemIsColumn ==
    /\ (call.op = "get_report_column_builders" /\ FieldsAndCallables) =>
          /\ outcome.kind = "return"
          /\ \A i \in DOMAIN CallItems :
                IsCallableObject(CallItems[i]) =>
                    outcome.value[i].fetcher = [case |-> "callable", item |-> CallItems[i]]
    /\ (call.op = "get_report_data_rows" /\ FieldsAndCallables) =>
          /\ outcome.kind = "return"
          /\ Len(outcome.value.values) = call.n
          /\ \A obj \in 1..call.n : \A i \in DOMAIN CallItems :
                IsCallableObject(CallItems[i]) =>
                    outcome.value.values[obj][i] =
                        <<"text_type", <<"callable", CallItems[i].name, obj>>>>

====
